---- MODULE Spec2Model ----
(***************************************************************************)
(* A model of dprcon.py: the three RCON connection classes                 *)
(* (InsecureRCONConnection, TimeBasedSecureRCONConnection,                 *)
(* ChallengeBasedSecureRCONConnection), one instance driven by one caller. *)
(*                                                                         *)
(* Byte strings are sequences of symbols.  One symbol is one byte, except  *)
(* that a fixed literal of the source ("challenge ", "rcon ", a command    *)
(* line, the password) is kept as one symbol; no literal overlaps the      *)
(* bytes the two regular expressions look for, so matching is unaffected.  *)
(* An HMAC digest is kept symbolically, hmac( key , message ).             *)
(* Every datagram is shorter than the read buffer size, so recv returns    *)
(* it whole.                                                               *)
(***************************************************************************)
EXTENDS Integers, Sequences, FiniteSets, TLC

VARIABLES
    variant,          \* the class of the instance
    _sock,            \* self._sock: None or the socket
    timeout,          \* self.timeout
    timeoutArg,       \* the timeout last handed over while unconnected:
                      \* __init__'s parameter `timeout`, setTimeout's `val`
    challengeTimeout, \* self.challengeTimeout
    _challenge,       \* self._challenge
    recvbuf,          \* self.recvbuf
    pc,               \* where the caller is: idle, inside _recvchallenge, deleted
    elapsed,          \* inside _recvchallenge: time.time() minus the time of the request
    opName,           \* the operation called last (or in progress)
    exc,              \* the exception it raised, NoExc if none
    ret,              \* what read() returned
    retT,             \* what getTimeout() / setTimeout() returned
    cmds,             \* the arguments *s of the last completed send
    sent,             \* the datagrams the operation wrote to the socket, in order
    recvd,            \* whether the operation called recv on the socket
    s                 \* the datagram its last recv returned

vars == <<variant, _sock, timeout, timeoutArg, challengeTimeout, _challenge, recvbuf,
          pc, elapsed, opName, exc, ret, retT, cmds, sent, recvd, s>>

----------------------------------------------------------------------------
(* Bounds and input sets *)

MaxBuf == 2
MaxChallengeTimeout == 2
MaxCmds == 2

defaultTimeout == 10

\* socket.gettimeout() of a socket no timeout was set on (Python's None)
NoneTimeout == 0 - 1

TimeoutVals == {1, defaultTimeout}
\* 0: the negotiation loop is never entered
ChallengeTimeouts == {0, MaxChallengeTimeout}
Commands == {"status", "say"}
Stamps == { <<"100", ".", "000000">>, <<"100", ".", "000001">> }

Variants == {"Insecure", "TimeBased", "ChallengeBased"}

FF == "\\377"
NUL == "\\0"
NL == "\\n"
CH == "challenge "

EmptyBytes == << >>
Marker == <<FF, FF, FF, FF>>
Pwd == <<"password">>

\* the datagrams the server side may deliver
Datagrams ==
    { Marker \o <<"n", "a">>,
      Marker \o <<"n", "b">>,
      Marker \o <<"n">>,
      Marker \o <<"n", "a", NL, "b">>,
      Marker \o <<CH, "a">>,
      Marker \o <<CH, "b">>,
      Marker \o <<CH>>,
      Marker \o <<CH, "a", NUL, "b">>,
      Marker \o <<CH, "a", NL>>,
      Marker \o <<CH, "a", FF, FF, FF, "n", "b">>,
      <<FF, FF, FF, "n", "a">>,
      <<"a">> \o Marker \o <<"n", "b">>,
      <<"a">> \o Marker \o <<CH, "b">>,
      Marker \o <<"a">>,
      EmptyBytes }

SeqsUpTo(S, n) == UNION { [1..k -> S] : k \in 0..n }

----------------------------------------------------------------------------
(* Exceptions *)

NoExc == "none"
RCONConnectionRequiredException == "RCONConnectionRequiredException"
RCONAlreadyConnectedException == "RCONAlreadyConnectedException"
RCONChallengeTimeoutException == "RCONChallengeTimeoutException"
AttributeError == "AttributeError"
SocketError == "socket.error"
SocketTimeout == "socket.timeout"

----------------------------------------------------------------------------
(* The socket *)

None == [fd |-> 0, timeout |-> NoneTimeout]

\* socket.socket(): a new descriptor, not one that is still open
NewSocket(old) == [fd |-> (old.fd % 2) + 1, timeout |-> NoneTimeout]

isConnected == _sock # None

----------------------------------------------------------------------------
(* The two regular expressions *)

HasAt(b, i, pat) ==
    /\ i + Len(pat) - 1 <= Len(b)
    /\ SubSeq(b, i, i + Len(pat) - 1) = pat

\* the start of the leftmost match of the literal pat in b, 0 if there is none
FirstMatch(b, pat) ==
    LET hits == { i \in 1..Len(b) : HasAt(b, i, pat) }
    IN IF hits = {} THEN 0 ELSE CHOOSE i \in hits : \A j \in hits : i <= j

\* responseRegexp = "\377\377\377n(.*)" with re.S; findall(...)[0]
responseRegexp == <<FF, FF, FF, "n">>

translateRCONResponse(b) ==
    LET i == FirstMatch(b, responseRegexp)
    IN IF i = 0 THEN EmptyBytes ELSE SubSeq(b, i + 4, Len(b))

\* where "$" matches without re.M: at the end, and before a newline that ends the string
AtDollar(b, j) == j = Len(b) + 1 \/ (j = Len(b) /\ b[j] = NL)

\* challengeRegexp = "\377\377\377\377challenge (.*?)(?:$|\0)" with re.S; findall(...)[0]
challengeRegexp == Marker \o <<CH>>

translateChallengeResponse(b) ==
    LET i == FirstMatch(b, challengeRegexp)
        from == i + 5
        stops == { j \in from .. Len(b) + 1 : AtDollar(b, j) \/ (j <= Len(b) /\ b[j] = NUL) }
        stop == CHOOSE j \in stops : \A k \in stops : j <= k
    IN IF i = 0 THEN EmptyBytes ELSE SubSeq(b, from, stop - 1)

----------------------------------------------------------------------------
(* Outgoing packets *)

Hmac(key, msg) == <<"hmac(">> \o key \o <<",">> \o msg \o <<")">>

GetChallenge == Marker \o <<"getchallenge">>

InsecureMessage(line) ==
    Marker \o <<"rcon ">> \o Pwd \o <<" ">> \o <<line>>

TimeBasedMessage(line, mytime) ==
    Marker \o <<"srcon HMAC-MD4 TIME ">> \o Hmac(Pwd, mytime \o <<" ", line>>)
           \o <<" ">> \o mytime \o <<" ">> \o <<line>>

ChallengeMessage(line, ch) ==
    Marker \o <<"srcon HMAC-MD4 CHALLENGE ">> \o Hmac(Pwd, ch \o <<" ", line>>)
           \o <<" ">> \o ch \o <<" ">> \o <<line>>

RECURSIVE Join_NoSeparator(_)
\* b''.join(msgs): the messages back to back
Join_NoSeparator(msgs) ==
    IF Len(msgs) = 0 THEN EmptyBytes
    ELSE msgs[1] \o Join_NoSeparator(Tail(msgs))

RECURSIVE Join(_)
\* b'\0'.join(msgs)
Join(msgs) ==
    IF Len(msgs) = 0 THEN EmptyBytes
    ELSE IF Len(msgs) = 1 THEN msgs[1]
    ELSE msgs[1] \o <<NUL>> \o Join(Tail(msgs))

----------------------------------------------------------------------------
(* The result of an operation *)

Outcome(op, e, r, rt, c, snt, rcv, dg) ==
    /\ opName' = op
    /\ exc' = e
    /\ ret' = r
    /\ retT' = rt
    /\ cmds' = c
    /\ sent' = snt
    /\ recvd' = rcv
    /\ s' = dg

\* an operation that returns or raises without touching the socket
Done(op, e) ==
    /\ Outcome(op, e, EmptyBytes, NoneTimeout, << >>, << >>, FALSE, EmptyBytes)
    /\ pc' = "idle"
    /\ elapsed' = 0

----------------------------------------------------------------------------
(* Construction *)

\* __init__(host, port, password, connect, bufsize, timeout[, challengeTimeout])
Init ==
    \E v \in Variants, connect \in BOOLEAN, T \in TimeoutVals, ct \in ChallengeTimeouts :
        /\ variant = v
        /\ timeoutArg = T
        \* ChallengeBasedSecureRCONConnection.__init__ hands host, port, password,
        \* connect and bufsize to the base __init__, and not timeout
        /\ timeout = IF v = "ChallengeBased" THEN defaultTimeout ELSE T
        /\ challengeTimeout = IF v = "ChallengeBased" THEN ct ELSE 0
        /\ _challenge = EmptyBytes
        /\ recvbuf = << >>
        /\ _sock = IF connect
                  THEN [NewSocket(None) EXCEPT
                            !.timeout = IF v = "ChallengeBased" THEN defaultTimeout ELSE T]
                  ELSE None
        /\ pc = "idle"
        /\ elapsed = 0
        /\ opName = "__init__"
        /\ exc = NoExc
        /\ ret = EmptyBytes
        /\ retT = NoneTimeout
        /\ cmds = << >>
        /\ sent = << >>
        /\ recvd = FALSE
        /\ s = EmptyBytes

----------------------------------------------------------------------------
(* Lifecycle *)

\* connect() without its requireDisconnected
Connect_Unguarded ==
    /\ pc = "idle"
    /\ \/ /\ _sock' = [NewSocket(_sock) EXCEPT !.timeout = timeout]
          /\ Done("connect", NoExc)
       \/ /\ _sock' = NewSocket(_sock)
          /\ Done("connect", SocketError)
    /\ UNCHANGED <<variant, timeout, timeoutArg, challengeTimeout, _challenge, recvbuf>>

\* @requireDisconnected connect()
Connect ==
    /\ pc = "idle"
    /\ IF isConnected
       THEN /\ Done("connect", RCONAlreadyConnectedException)
            /\ UNCHANGED _sock
       ELSE \/ /\ _sock' = [NewSocket(_sock) EXCEPT !.timeout = timeout]
               /\ Done("connect", NoExc)
            \* self._sock is assigned before self._sock.connect(...) raises
            \/ /\ _sock' = NewSocket(_sock)
               /\ Done("connect", SocketError)
    /\ UNCHANGED <<variant, timeout, timeoutArg, challengeTimeout, _challenge, recvbuf>>

\* disconnect() that closes the socket and keeps self._sock
Disconnect_KeepsSocket ==
    /\ pc = "idle"
    /\ IF ~isConnected
       THEN Done("disconnect", RCONConnectionRequiredException)
       ELSE Done("disconnect", NoExc)
    /\ UNCHANGED <<variant, _sock, timeout, timeoutArg, challengeTimeout, _challenge, recvbuf>>

\* @requireConnected disconnect()
Disconnect ==
    /\ pc = "idle"
    /\ IF ~isConnected
       THEN /\ Done("disconnect", RCONConnectionRequiredException)
            /\ UNCHANGED _sock
       ELSE /\ _sock' = None
            /\ Done("disconnect", NoExc)
    /\ UNCHANGED <<variant, timeout, timeoutArg, challengeTimeout, _challenge, recvbuf>>

\* __del__(): try: self.disconnect()  except RCONAlreadyConnectedException: pass
Del ==
    /\ pc = "idle"
    /\ IF ~isConnected
       THEN \* disconnect raises RCONConnectionRequiredException, which the
            \* except clause does not name
            /\ Outcome("__del__", RCONConnectionRequiredException, EmptyBytes,
                       NoneTimeout, << >>, << >>, FALSE, EmptyBytes)
            /\ UNCHANGED _sock
       ELSE /\ _sock' = None
            /\ Outcome("__del__", NoExc, EmptyBytes, NoneTimeout, << >>, << >>,
                       FALSE, EmptyBytes)
    /\ pc' = "deleted"
    /\ elapsed' = 0
    /\ UNCHANGED <<variant, timeout, timeoutArg, challengeTimeout, _challenge, recvbuf>>

\* @requireConnected getLocalAddress()
GetLocalAddress ==
    /\ pc = "idle"
    /\ IF ~isConnected
       THEN Done("getLocalAddress", RCONConnectionRequiredException)
       ELSE /\ Outcome("getLocalAddress", NoExc, <<"host:port">>, NoneTimeout,
                       << >>, << >>, FALSE, EmptyBytes)
            /\ pc' = "idle"
            /\ elapsed' = 0
    /\ UNCHANGED <<variant, _sock, timeout, timeoutArg, challengeTimeout, _challenge, recvbuf>>

----------------------------------------------------------------------------
(* Timeouts *)

\* what getTimeout() returns
GetTimeoutValue == IF ~isConnected THEN timeout ELSE _sock.timeout

GetTimeout ==
    /\ pc = "idle"
    /\ Outcome("getTimeout", NoExc, EmptyBytes, GetTimeoutValue,
               << >>, << >>, FALSE, EmptyBytes)
    /\ pc' = "idle"
    /\ elapsed' = 0
    /\ UNCHANGED <<variant, _sock, timeout, timeoutArg, challengeTimeout, _challenge, recvbuf>>

SetTimeout(val) ==
    /\ pc = "idle"
    /\ IF ~isConnected
       THEN /\ timeout' = val
            /\ timeoutArg' = val
            /\ UNCHANGED _sock
       ELSE /\ _sock' = [_sock EXCEPT !.timeout = val]
            /\ UNCHANGED <<timeout, timeoutArg>>
    /\ Outcome("setTimeout", NoExc, EmptyBytes, val, << >>, << >>, FALSE, EmptyBytes)
    /\ pc' = "idle"
    /\ elapsed' = 0
    /\ UNCHANGED <<variant, challengeTimeout, _challenge, recvbuf>>

SetChallengeTimeout(val) ==
    /\ pc = "idle"
    /\ variant = "ChallengeBased"
    /\ challengeTimeout' = val
    /\ Done("setChallengeTimeout", NoExc)
    /\ UNCHANGED <<variant, _sock, timeout, timeoutArg, _challenge, recvbuf>>

----------------------------------------------------------------------------
(* send *)

\* [self.makeRCONMessage(a) for a in s] of the three classes
InsecureMessages(args) == [i \in 1..Len(args) |-> InsecureMessage(args[i])]
TimeBasedMessages(args, stamps) == [i \in 1..Len(args) |-> TimeBasedMessage(args[i], stamps[i])]
ChallengeMessages(args, ch) == [i \in 1..Len(args) |-> ChallengeMessage(args[i], ch)]

\* @requireConnected InsecureRCONConnection.send(*s), the messages already built:
\* one datagram, after what the operation wrote before
BaseSend(args, msgs, before, rcv, dg) ==
    IF ~isConnected
    THEN Outcome("send", RCONConnectionRequiredException, EmptyBytes, NoneTimeout,
                 << >>, before, rcv, dg)
    ELSE Outcome("send", NoExc, EmptyBytes, NoneTimeout,
                 args, Append(before, Join(msgs)), rcv, dg)

InsecureSend(args) ==
    /\ pc = "idle"
    /\ variant = "Insecure"
    /\ BaseSend(args, InsecureMessages(args), << >>, FALSE, EmptyBytes)
    /\ pc' = "idle"
    /\ elapsed' = 0
    /\ UNCHANGED <<variant, _sock, timeout, timeoutArg, challengeTimeout, _challenge, recvbuf>>

TimeBasedSend(args, stamps) ==
    /\ pc = "idle"
    /\ variant = "TimeBased"
    /\ BaseSend(args, TimeBasedMessages(args, stamps), << >>, FALSE, EmptyBytes)
    /\ pc' = "idle"
    /\ elapsed' = 0
    /\ UNCHANGED <<variant, _sock, timeout, timeoutArg, challengeTimeout, _challenge, recvbuf>>

\* ChallengeBasedSecureRCONConnection.send(*s) up to the while loop of
\* _recvchallenge: it has no requireConnected of its own, and _recvchallenge
\* starts with self._sock.send(getchallenge)
ChallengeSend ==
    /\ pc = "idle"
    /\ variant = "ChallengeBased"
    /\ IF ~isConnected
       THEN \* None has no attribute send
            Done("send", AttributeError)
       ELSE /\ Outcome("send", NoExc, EmptyBytes, NoneTimeout, << >>,
                       <<GetChallenge>>, FALSE, EmptyBytes)
            /\ pc' = "recvchallenge"
            /\ elapsed' = 0
    /\ UNCHANGED <<variant, _sock, timeout, timeoutArg, challengeTimeout, _challenge, recvbuf>>

\* while time.time() < timeouttime
InLoop == pc = "recvchallenge" /\ elapsed < challengeTimeout

\* _recvchallenge without its raise: it falls off the loop, returns None, and
\* send goes on with an empty challenge
RecvChallengeExpire_NoRaise ==
    /\ pc = "recvchallenge"
    /\ ~(elapsed < challengeTimeout)
    /\ _challenge' = EmptyBytes
    /\ \E args \in SeqsUpTo(Commands, MaxCmds) :
           BaseSend(args, ChallengeMessages(args, _challenge'), sent, recvd, s)
    /\ pc' = "idle"
    /\ elapsed' = 0
    /\ UNCHANGED <<variant, _sock, timeout, timeoutArg, challengeTimeout, recvbuf>>

\* the loop condition fails, and the loop starts over with a new timeouttime
RecvChallengeExpire_Retry ==
    /\ pc = "recvchallenge"
    /\ ~(elapsed < challengeTimeout)
    /\ challengeTimeout > 0
    /\ elapsed' = 0
    /\ UNCHANGED <<variant, _sock, timeout, timeoutArg, challengeTimeout, _challenge, recvbuf,
                   pc, opName, exc, ret, retT, cmds, sent, recvd, s>>

\* the loop condition fails: raise RCONChallengeTimeoutException
RecvChallengeExpire ==
    /\ pc = "recvchallenge"
    /\ ~(elapsed < challengeTimeout)
    /\ Outcome("send", RCONChallengeTimeoutException, EmptyBytes, NoneTimeout,
               << >>, sent, recvd, s)
    /\ pc' = "idle"
    /\ elapsed' = 0
    /\ UNCHANGED <<variant, _sock, timeout, timeoutArg, challengeTimeout, _challenge, recvbuf>>

\* select returns nothing readable after its timeout, self.challengeTimeout
RecvChallengeSelectEmpty ==
    /\ InLoop
    /\ elapsed' = elapsed + challengeTimeout
    /\ UNCHANGED <<variant, _sock, timeout, timeoutArg, challengeTimeout, _challenge, recvbuf,
                   pc, opName, exc, ret, retT, cmds, sent, recvd, s>>

\* send that signs with the self._challenge it found, and stores the new token after
RecvChallengeRecv_Stale(d) ==
    /\ InLoop
    /\ LET r == translateRCONResponse(d)
           c == translateChallengeResponse(d)
       IN IF r # EmptyBytes
          THEN /\ Len(recvbuf) < MaxBuf
               /\ recvbuf' = Append(recvbuf, r)
               /\ \E dt \in 0..challengeTimeout : elapsed' = elapsed + dt
               /\ s' = d
               /\ recvd' = TRUE
               /\ UNCHANGED <<_challenge, pc, opName, exc, ret, retT, cmds, sent>>
          ELSE IF c # EmptyBytes
          THEN /\ _challenge' = c
               /\ \E args \in SeqsUpTo(Commands, MaxCmds) :
                      BaseSend(args, ChallengeMessages(args, _challenge), sent, TRUE, d)
               /\ pc' = "idle"
               /\ elapsed' = 0
               /\ UNCHANGED recvbuf
          ELSE /\ \E dt \in 0..challengeTimeout : elapsed' = elapsed + dt
               /\ s' = d
               /\ recvd' = TRUE
               /\ UNCHANGED <<_challenge, recvbuf, pc, opName, exc, ret, retT, cmds, sent>>
    /\ UNCHANGED <<variant, _sock, timeout, timeoutArg, challengeTimeout>>

\* select returns the socket after some dt within its timeout, and one pass of
\* the loop body reads d.
\* The arguments of send are first used after the token is there, so they are
\* drawn there.
RecvChallengeRecv(d) ==
    /\ InLoop
    /\ LET r == translateRCONResponse(d)
           c == translateChallengeResponse(d)
       IN IF r # EmptyBytes
          THEN /\ Len(recvbuf) < MaxBuf
               /\ recvbuf' = Append(recvbuf, r)
               /\ \E dt \in 0..challengeTimeout : elapsed' = elapsed + dt
               /\ s' = d
               /\ recvd' = TRUE
               /\ UNCHANGED <<_challenge, pc, opName, exc, ret, retT, cmds, sent>>
          ELSE IF c # EmptyBytes
          THEN /\ _challenge' = c
               /\ \E args \in SeqsUpTo(Commands, MaxCmds) :
                      BaseSend(args, ChallengeMessages(args, _challenge'), sent, TRUE, d)
               /\ pc' = "idle"
               /\ elapsed' = 0
               /\ UNCHANGED recvbuf
          ELSE /\ \E dt \in 0..challengeTimeout : elapsed' = elapsed + dt
               /\ s' = d
               /\ recvd' = TRUE
               /\ UNCHANGED <<_challenge, recvbuf, pc, opName, exc, ret, retT, cmds, sent>>
    /\ UNCHANGED <<variant, _sock, timeout, timeoutArg, challengeTimeout>>

----------------------------------------------------------------------------
(* read *)

\* self.recvbuf.pop(): the newest entry instead of the oldest
Pop_Newest(buf) == [entry |-> buf[Len(buf)], rest |-> SubSeq(buf, 1, Len(buf) - 1)]

\* self.recvbuf.pop(0): the entry returned and the entries left
Pop(buf) == [entry |-> Head(buf), rest |-> Tail(buf)]

\* @requireConnected InsecureRCONConnection.read(bufsize)
BaseRead ==
    IF ~isConnected
    THEN Done("read", RCONConnectionRequiredException)
    ELSE /\ \/ \E d \in Datagrams :
                  Outcome("read", NoExc, translateRCONResponse(d), NoneTimeout,
                          << >>, << >>, TRUE, d)
            \* recv gets nothing within the socket's timeout
            \/ Outcome("read", SocketTimeout, EmptyBytes, NoneTimeout,
                       << >>, << >>, TRUE, EmptyBytes)
         /\ pc' = "idle"
         /\ elapsed' = 0

\* ChallengeBasedSecureRCONConnection.read(bufsize), and the read the other
\* two classes inherit
Read ==
    /\ pc = "idle"
    /\ IF variant = "ChallengeBased" /\ recvbuf # << >>
       THEN /\ recvbuf' = Pop(recvbuf).rest
            /\ Outcome("read", NoExc, Pop(recvbuf).entry, NoneTimeout,
                       << >>, << >>, FALSE, EmptyBytes)
            /\ pc' = "idle"
            /\ elapsed' = 0
       ELSE /\ BaseRead
            /\ UNCHANGED recvbuf
    /\ UNCHANGED <<variant, _sock, timeout, timeoutArg, challengeTimeout, _challenge>>

----------------------------------------------------------------------------
(* The specification *)

Next ==
    \/ Connect
    \/ Disconnect
    \/ Del
    \/ GetLocalAddress
    \/ GetTimeout
    \/ \E val \in TimeoutVals : SetTimeout(val)
    \/ \E val \in ChallengeTimeouts : SetChallengeTimeout(val)
    \/ \E args \in SeqsUpTo(Commands, MaxCmds) : InsecureSend(args)
    \/ \E args \in SeqsUpTo(Commands, MaxCmds) :
           \E stamps \in [1..Len(args) -> Stamps] : TimeBasedSend(args, stamps)
    \/ ChallengeSend
    \/ RecvChallengeExpire
    \/ RecvChallengeSelectEmpty
    \/ \E d \in Datagrams : RecvChallengeRecv(d)
    \/ Read

Spec == Init /\ [][Next]_vars

\* a pass of the loop of _recvchallenge during which time.time() grows
ClockTick ==
    /\ \/ RecvChallengeSelectEmpty
       \/ \E d \in Datagrams : RecvChallengeRecv(d)
    /\ elapsed' > elapsed

\* a ChallengeBasedSecureRCONConnection after construction
LiveInit == Init /\ variant = "ChallengeBased"

\* the operations that start a negotiation, run it, or change what it works
\* with: the socket, challengeTimeout, recvbuf
LiveNext ==
    \/ Connect
    \/ Disconnect
    \/ \E val \in ChallengeTimeouts : SetChallengeTimeout(val)
    \/ ChallengeSend
    \/ RecvChallengeExpire
    \/ RecvChallengeSelectEmpty
    \/ \E d \in Datagrams : RecvChallengeRecv(d)
    \/ Read

\* The clock advances while _recvchallenge runs, and the thread in it goes on
\* to test the loop condition.
LiveSpec == LiveInit /\ [][LiveNext]_vars /\ WF_vars(ClockTick) /\ WF_vars(RecvChallengeExpire)

----------------------------------------------------------------------------
(* The wire format of section 6 of the specification, for the claims *)

\* an incoming command response: marker, "n", response text
IsCommandResponse(d) == HasAt(d, 1, Marker \o <<"n">>)
ResponseText(d) == SubSeq(d, 6, Len(d))

\* an incoming challenge response: marker, "challenge ", token, and optionally
\* a NUL and a trailer
IsChallengeResponse(d) == HasAt(d, 1, Marker \o <<CH>>)
MatchesNeither(d) == ~IsCommandResponse(d) /\ ~IsChallengeResponse(d)

RECURSIVE SplitNul(_)
\* the pieces of a datagram between its NUL bytes
SplitNul(b) ==
    IF \A i \in 1..Len(b) : b[i] # NUL THEN <<b>>
    ELSE LET i == CHOOSE k \in 1..Len(b) :
                      b[k] = NUL /\ \A j \in 1..(k - 1) : b[j] # NUL
         IN <<SubSeq(b, 1, i - 1)>> \o SplitNul(SubSeq(b, i + 1, Len(b)))

\* the datagrams an operation wrote, the getchallenge request left out
CommandDatagrams == SelectSeq(sent, LAMBDA x : x # GetChallenge)

\* p is the framed packet of this variant for the command line
IsFramedPacket(p, line) ==
    /\ HasAt(p, 1, Marker)
    /\ CASE variant = "Insecure" -> p = InsecureMessage(line)
         [] variant = "TimeBased" -> \E st \in Stamps : p = TimeBasedMessage(line, st)
         [] OTHER -> p = ChallengeMessage(line, _challenge)

\* the datagram is the framed packets of the commands, in order, with single
\* NUL bytes between them and nowhere else
IsJoinedPackets(dg, lines) ==
    LET p == SplitNul(dg)
    IN /\ Len(p) = Len(lines)
       /\ \A i \in 1..Len(p) : IsFramedPacket(p[i], lines[i])

\* a send of one command or more has returned
SendReturned == opName = "send" /\ pc = "idle" /\ exc = NoExc /\ Len(cmds) >= 1

\* the token of a challenge response: the bytes after marker and "challenge ",
\* up to the first NUL byte or the end
TokenOf(d) == SplitNul(SubSeq(d, 6, Len(d)))[1]

\* a step of the negotiation loop that reads a datagram
ReadsInLoop == InLoop /\ recvd' /\ (~recvd \/ s' # s)

----------------------------------------------------------------------------
(* Claims *)

\* C1: send() on an instance that is not connected fails with
\* ConnectionRequired, whatever the variant, and before anything is done with
\* the socket (no getchallenge request, no receive).
C1_SendRequiresConnection ==
    (opName = "send" /\ pc = "idle" /\ ~isConnected)
        => (exc = RCONConnectionRequiredException /\ sent = << >> /\ ~recvd)

\* C2: read() on an instance that is not connected fails with
\* ConnectionRequired, whatever the variant and whatever came before; a
\* challenge-based instance disconnected with entries left in recvbuf included.
C2_ReadRequiresConnection ==
    (opName = "read" /\ ~isConnected) => exc = RCONConnectionRequiredException

\* C3: __del__ lets no ConnectionRequired or AlreadyConnected error out: it
\* ends without an exception and with the instance unconnected, whether the
\* instance was connected or not.
C3_TeardownIsSilent ==
    opName = "__del__" => (exc = NoExc /\ ~isConnected)

\* C4: read() on a connected challenge-based instance whose recvbuf is not
\* empty returns the oldest entry, removes that entry and no other, and does
\* nothing with the socket; only with an empty recvbuf does it call recv.
C4_ReadDrainsBufferFirst ==
    [][ (pc = "idle" /\ opName' = "read" /\ variant = "ChallengeBased" /\ isConnected)
            => IF recvbuf # << >>
               THEN /\ exc' = NoExc
                    /\ ret' = Head(recvbuf)
                    /\ recvbuf' = Tail(recvbuf)
                    /\ ~recvd'
                    /\ sent' = << >>
               ELSE /\ recvd'
                    /\ recvbuf' = << >> ]_vars

C4_Witness ==
    /\ variant = "ChallengeBased"
    /\ isConnected
    /\ opName = "read"
    /\ exc = NoExc
    /\ ~recvd
    /\ Len(recvbuf) = 1
    /\ ret # recvbuf[1]

\* C5: every command-response datagram that the negotiation reads is appended
\* to recvbuf with its response text, the empty text included.
C5_NegotiationBuffersEveryResponse ==
    [][ (InLoop /\ recvd' /\ (~recvd \/ s' # s) /\ IsCommandResponse(s'))
            => recvbuf' = Append(recvbuf, ResponseText(s')) ]_vars

C7_OneTokenPerSend ==
    (variant = "ChallengeBased" /\ opName = "send" /\ pc = "idle" /\ exc = NoExc)
        => /\ Len(sent) = 2
           /\ sent[1] = GetChallenge
           /\ recvd
           /\ _challenge = translateChallengeResponse(s)
           /\ sent[2] = Join(ChallengeMessages(cmds, translateChallengeResponse(s)))

C7_Witness ==
    /\ variant = "ChallengeBased"
    /\ opName = "send"
    /\ pc = "idle"
    /\ exc = NoExc
    /\ Len(cmds) = 2
    /\ cmds[1] # cmds[2]
    /\ Len(sent) = 2

\* C8: connect() on a connected instance raises AlreadyConnected and changes
\* neither the socket nor anything else of the instance; connect() on an
\* unconnected instance that raises nothing leaves it connected.
C8_ConnectOnlyWhenUnconnected ==
    [][ (pc = "idle" /\ opName' = "connect")
            => IF isConnected
               THEN /\ exc' = RCONAlreadyConnectedException
                    /\ UNCHANGED <<variant, _sock, timeout, timeoutArg, challengeTimeout,
                                   _challenge, recvbuf>>
               ELSE /\ exc' # RCONAlreadyConnectedException
                    /\ (exc' = NoExc => _sock' # None) ]_vars

C8_Witness ==
    /\ opName = "connect"
    /\ exc = RCONAlreadyConnectedException
    /\ isConnected
    /\ _sock.timeout # timeout

\* C9: disconnect() on an unconnected instance raises ConnectionRequired; on a
\* connected one it gives the socket up, isConnected() is false after it, and
\* the connect() that follows is not refused: it connects again.
C9_DisconnectThenConnect ==
    [][ /\ (pc = "idle" /\ opName' = "disconnect")
            => IF ~isConnected
               THEN exc' = RCONConnectionRequiredException /\ _sock' = None
               ELSE exc' = NoExc /\ _sock' = None
        /\ (pc = "idle" /\ opName = "disconnect" /\ exc = NoExc /\ opName' = "connect")
            => /\ exc' # RCONAlreadyConnectedException
               /\ (exc' = NoExc => _sock' # None) ]_vars

C9_Witness ==
    /\ opName = "connect"
    /\ exc = NoExc
    /\ isConnected
    /\ variant = "ChallengeBased"
    /\ recvbuf # << >>

\* C10: right after connect() the socket's timeout is the configured one: the
\* value given to the constructor, or to setTimeout while unconnected.
C10_ConnectAppliesTimeout ==
    (opName \in {"__init__", "connect"} /\ exc = NoExc /\ isConnected)
        => _sock.timeout = timeoutArg

\* C11: a datagram that is neither a command response nor a challenge
\* response raises nothing: read() returns the empty string for it, and the
\* negotiation passes over it, leaving recvbuf as it is and going on.
C11_UnrecognizedIsSkipped ==
    [][ /\ (pc = "idle" /\ opName' = "read" /\ recvd' /\ exc' # SocketTimeout
               /\ MatchesNeither(s'))
            => (exc' = NoExc /\ ret' = EmptyBytes)
        /\ (ReadsInLoop /\ MatchesNeither(s'))
            => (pc' = "recvchallenge" /\ exc' = NoExc /\ recvbuf' = recvbuf) ]_vars

\* C12 as amended: a send of n >= 1 commands that returns has written exactly
\* one command datagram, the n framed packets in argument order separated by
\* n-1 single NUL bytes; the challenge-based variant has written its
\* getchallenge request before it, and nothing else.
C12_CommandsInOneDatagram ==
    SendReturned =>
        /\ Len(CommandDatagrams) = 1
        /\ IsJoinedPackets(CommandDatagrams[1], cmds)
        /\ sent = IF variant = "ChallengeBased"
                  THEN <<GetChallenge, CommandDatagrams[1]>>
                  ELSE <<CommandDatagrams[1]>>

C12_Witness ==
    /\ SendReturned
    /\ variant = "ChallengeBased"
    /\ Len(cmds) = 2
    /\ cmds[1] # cmds[2]

\* C12 as stated: for every variant a connected send of n >= 1 commands writes
\* exactly one datagram, the n framed packets joined by single NUL bytes.
C12_ExactlyOneDatagram ==
    SendReturned => (Len(sent) = 1 /\ IsJoinedPackets(sent[1], cmds))

\* the timestamp field and the digest field of a time-based packet
TimestampOf(p) == SubSeq(p, 16, 18)
DigestOf(p) == SubSeq(p, 6, 14)

\* C13: the time-based variant signing the same command twice, one right after
\* the other, produces two different timestamps, and so two different digests
\* and two different messages.
C13_ResignedMessagesDiffer ==
    (SendReturned /\ variant = "TimeBased" /\ Len(cmds) = 2 /\ cmds[1] = cmds[2]) =>
        LET p == SplitNul(sent[1])
        IN /\ TimestampOf(p[1]) # TimestampOf(p[2])
           /\ DigestOf(p[1]) # DigestOf(p[2])
           /\ p[1] # p[2]

\* C14: the negotiation keeps its deadline: each wait in the loop lasts at most
\* the time left until challengeTimeout after the getchallenge request, so the
\* time spent in the negotiation never passes challengeTimeout.
C14_DeadlineHonoured ==
    pc = "recvchallenge" => elapsed <= challengeTimeout

\* C15: with an advancing clock every negotiation ends, with a token or with
\* RCONChallengeTimeoutException, whatever datagrams keep arriving.
C15_NegotiationTerminates ==
    (pc = "recvchallenge") ~> (pc = "idle")

\* a negotiation that read datagrams which were no challenge has ended with
\* RCONChallengeTimeoutException
C15_Witness ==
    /\ opName = "send"
    /\ pc = "idle"
    /\ exc = RCONChallengeTimeoutException
    /\ recvd
    /\ Len(recvbuf) = MaxBuf

\* C16: in a negotiation, a datagram read that starts with the marker and
\* "challenge " ends the negotiation at once, send going on with its token; it
\* is not appended to recvbuf and not passed over, whatever its token holds.
C16_ChallengeResponseEndsNegotiation ==
    [][ (ReadsInLoop /\ IsChallengeResponse(s'))
            => (pc' = "idle" /\ exc' = NoExc /\ recvbuf' = recvbuf) ]_vars

\* C17: read() decodes the datagram it received as a command response exactly
\* when it starts with the 4-byte marker and "n", and the result is then every
\* byte after that "n"; for any other datagram the result is empty.
C17_CommandResponseDecoding ==
    (opName = "read" /\ recvd /\ exc = NoExc) =>
        ret = IF IsCommandResponse(s) THEN ResponseText(s) ELSE EmptyBytes

\* C18: the token a negotiation takes from a challenge response is the bytes
\* after marker and "challenge " up to the first NUL byte or the end of the
\* datagram: nothing after the NUL, and every byte before it.
C18_TokenIsExact ==
    (opName = "send" /\ pc = "idle" /\ exc = NoExc /\ variant = "ChallengeBased"
        /\ IsChallengeResponse(s))
        => _challenge = TokenOf(s)

\* C19: a connect() that fails with a socket error leaves the instance
\* unconnected, so that isConnected() is false and connect() can be tried again.
C19_FailedConnectStaysUnconnected ==
    (opName = "connect" /\ exc = SocketError) => ~isConnected

\* C20: getTimeout() returns the value of the latest setTimeout, or the
\* constructor's when there was none, also when it was set while connected and
\* a disconnect came after: no setTimeout being called in it, a disconnect()
\* leaves the value getTimeout() returns as it was.
\* Stated for the two classes whose constructor keeps its timeout argument
\* (see C10) and for sockets whose connect went through (see C19).
C20_TimeoutIsRemembered ==
    [][ (variant # "ChallengeBased" /\ _sock.timeout # NoneTimeout
            /\ opName' = "disconnect" /\ exc' = NoExc)
            => GetTimeoutValue' = GetTimeoutValue ]_vars

====
